---- MODULE Spec2Model ----
(***************************************************************************)
(* Model of yaml_config's Config Root facade (lib/yaml_config/config.py):  *)
(* YamlConfigMixin.dump / load / set_default and the three root classes    *)
(* YamlConfig, CategoryYamlConfig and ListYamlConfig.                      *)
(*                                                                         *)
(* The element classes (yaml_config.elements) and the YAML reader/emitter  *)
(* (myyaml) are collaborators of config.py; they are modelled from their   *)
(* documented contract.                                                    *)
(***************************************************************************)
EXTENDS Integers, Sequences, FiniteSets, TLC

\* The integers of the documents offered to load are 0..MaxVal; MaxVal is also
\* the integer offered to set_default.
MaxVal == 1

(***************************************************************************)
(* Generic document nodes (the parsed YAML data / value trees).  Python's  *)
(* None is Null.  A mapping or sequence keeps its entries, in order, in    *)
(* kids; a sequence's entries have the key "".                             *)
(***************************************************************************)
Null == [k |-> "null", i |-> 0, s |-> "", kids |-> <<>>]
IntN(n) == [k |-> "int", i |-> n, s |-> "", kids |-> <<>>]
StrN(x) == [k |-> "str", i |-> 0, s |-> x, kids |-> <<>>]
MapN(entries) == [k |-> "map", i |-> 0, s |-> "", kids |-> entries]
SeqN(entries) == [k |-> "seq", i |-> 0, s |-> "", kids |-> entries]
KV(key, val) == [key |-> key, val |-> val]
Item(val) == [key |-> "", val |-> val]

HasKey(node, key) == \E j \in 1..Len(node.kids) : node.kids[j].key = key
Get(node, key) ==
    IF node.k = "map" /\ HasKey(node, key)
    THEN node.kids[CHOOSE j \in 1..Len(node.kids) : node.kids[j].key = key].val
    ELSE Null

(***************************************************************************)
(* The element objects.  Every object lives in the heap under its id; a    *)
(* container refers to its sub-elements by id, as Python refers to         *)
(* objects.                                                                *)
(***************************************************************************)
Roots == {"K1", "K2", "C", "L"}
ElemIds == Roots \cup {"pie", "fruit", "age", "item"}

\* ConfigElement.__init__: name=None, default=None, required=False,
\* choices=None; containers keep the sub-element objects they are handed.
ConfigElement(type, name, required, choices, vmin, subs) ==
    [type |-> type, name |-> name, default |-> Null, required |-> required,
     choices |-> choices, vmin |-> vmin, subs |-> subs]

NoElement == ConfigElement("none", "", FALSE, {}, 0, <<>>)
\* The name an element has when none is given (Python's None).
NoName == ""

KeyedElem(name, elements) == ConfigElement("keyed", name, FALSE, {}, 0, elements)
CategoryElem(name, sub_elem) == ConfigElement("category", name, FALSE, {}, 0, <<sub_elem>>)
ListElem(name, sub_elem) == ConfigElement("list", name, FALSE, {}, 0, <<sub_elem>>)
StrElem(name, choices) == ConfigElement("str", name, FALSE, choices, 0, <<>>)
IntRangeElem(name, vmin, required) == ConfigElement("int", name, required, {}, vmin, <<>>)

(***************************************************************************)
(* The schema classes of the model, after the examples of the docstrings:  *)
(*   class DessertConfig(YamlConfig):                                      *)
(*       ELEMENTS = [KeyedElem('pie', elements=[                           *)
(*                       StrElem('fruit', choices=['apple', 'cherry'])])]  *)
(*   class UserConfig(CategoryYamlConfig):                                 *)
(*       BASE = IntRangeElem(vmin=1, required=True)                        *)
(*   class ShoppingList(ListYamlConfig):                                   *)
(*       BASE = StrElem()                                                  *)
(* K1 and K2 are two DessertConfig instances, C a UserConfig, L a          *)
(* ShoppingList.  The class attributes are evaluated once, when the class  *)
(* is defined: ClassHeap is the heap at that point.                        *)
(***************************************************************************)
ClassOf(self) == IF self \in {"K1", "K2"} THEN "DessertConfig"
                 ELSE IF self = "C" THEN "UserConfig" ELSE "ShoppingList"

ELEMENTS(self) == <<"pie">>
BASE(self) == IF self = "C" THEN "age" ELSE "item"
HEADER == ""

ClassHeap ==
    [id \in ElemIds |->
        CASE id = "pie" -> KeyedElem("pie", <<"fruit">>)
          [] id = "fruit" -> StrElem("fruit", {StrN("apple"), StrN("cherry")})
          [] id = "age" -> IntRangeElem(NoName, 1, TRUE)
          [] id = "item" -> StrElem(NoName, {})
          [] OTHER -> NoElement]

(***************************************************************************)
(* ConfigElement.validate.  Result: [err, val], err = "" on success.       *)
(* A leaf that is absent (Null) takes its default, or fails with           *)
(* RequiredError when it is required and has none; a present leaf is       *)
(* checked for its type, its range and its choices.  An absent container   *)
(* is validated as an empty one, so that the value tree mirrors the        *)
(* element tree and the defaults of its sub-elements are injected.         *)
(***************************************************************************)
Ok(val) == [err |-> "", val |-> val]
Err(kind) == [err |-> kind, val |-> Null]

validate_leaf(e, node) ==
    IF node.k = "null"
    THEN IF e.default # Null THEN Ok(e.default)
         ELSE IF e.required THEN Err("RequiredError") ELSE Ok(Null)
    ELSE IF e.type = "str"
    THEN IF node.k # "str" THEN Err("ValueError")
         ELSE IF e.choices # {} /\ node \notin e.choices THEN Err("ValueError")
         ELSE Ok(node)
    ELSE IF node.k # "int" \/ node.i < e.vmin THEN Err("ValueError")
         ELSE Ok(node)

RECURSIVE validate(_, _, _)
RECURSIVE validate_keys(_, _, _, _, _)
RECURSIVE validate_items(_, _, _, _, _)

\* KeyedElem: every declared sub-element in declaration order.
validate_keys(h, subs, node, idx, acc) ==
    IF idx > Len(subs) THEN Ok(MapN(acc))
    ELSE LET name == h[subs[idx]].name
             r == validate(h, subs[idx], Get(node, name))
         IN IF r.err # "" THEN r
            ELSE validate_keys(h, subs, node, idx + 1, Append(acc, KV(name, r.val)))

\* CategoryElem and ListElem: every entry of the input against the one sub_elem.
validate_items(h, sub, node, idx, acc) ==
    IF idx > Len(node.kids) THEN Ok([node EXCEPT !.kids = acc])
    ELSE LET r == validate(h, sub, node.kids[idx].val)
         IN IF r.err # "" THEN r
            ELSE validate_items(h, sub, node, idx + 1,
                                Append(acc, KV(node.kids[idx].key, r.val)))

validate(h, id, node) ==
    LET e == h[id] IN
    CASE e.type = "keyed" ->
           IF node.k \notin {"null", "map"} THEN Err("ValueError")
           ELSE IF \E j \in 1..Len(node.kids) :
                     \A c \in 1..Len(e.subs) : h[e.subs[c]].name # node.kids[j].key
                THEN Err("KeyError")
                ELSE validate_keys(h, e.subs, node, 1, <<>>)
      [] e.type = "category" ->
           IF node.k = "null" THEN Ok(MapN(<<>>))
           ELSE IF node.k # "map" THEN Err("ValueError")
           ELSE validate_items(h, e.subs[1], node, 1, <<>>)
      [] e.type = "list" ->
           IF node.k = "null" THEN Ok(SeqN(<<>>))
           ELSE IF node.k # "seq" THEN Err("ValueError")
           ELSE validate_items(h, e.subs[1], node, 1, <<>>)
      [] OTHER -> validate_leaf(e, node)

(***************************************************************************)
(* ConfigElement.find.  A dotted key 'pie.fruit' is the sequence of its    *)
(* segments <<"pie", "fruit">>.  Result: [err, elem].                      *)
(***************************************************************************)
RECURSIVE find(_, _, _)
find(h, id, dotted_key) ==
    IF dotted_key = <<>> THEN [err |-> "", elem |-> id]
    ELSE LET e == h[id]
             seg == Head(dotted_key)
         IN CASE e.type = "keyed" ->
                   IF \E c \in 1..Len(e.subs) : h[e.subs[c]].name = seg
                   THEN find(h, e.subs[CHOOSE c \in 1..Len(e.subs) :
                                           h[e.subs[c]].name = seg],
                             Tail(dotted_key))
                   ELSE [err |-> "KeyError", elem |-> id]
              [] e.type \in {"category", "list"} ->
                   IF seg = "*" THEN find(h, e.subs[1], Tail(dotted_key))
                   ELSE [err |-> "KeyError", elem |-> id]
              [] OTHER -> [err |-> "KeyError", elem |-> id]
(***************************************************************************)
(* YAML events and the text of scalars.  A scalar event carries the text   *)
(* of its value; the reader resolves a plain scalar's text back to a       *)
(* typed value (empty -> None, digits -> int, anything else -> str).       *)
(***************************************************************************)
Event(e, text) == [e |-> e, text |-> text]
StreamStartEvent == Event("StreamStart", "")
DocumentStartEvent == Event("DocumentStart", "")
DocumentEndEvent == Event("DocumentEnd", "")
StreamEndEvent == Event("StreamEnd", "")
MappingStartEvent == Event("MappingStart", "")
MappingEndEvent == Event("MappingEnd", "")
SequenceStartEvent == Event("SequenceStart", "")
SequenceEndEvent == Event("SequenceEnd", "")
ScalarEvent(text) == Event("Scalar", text)
CommentEvent(text) == Event("Comment", text)

Digits == <<"0", "1", "2", "3", "4", "5", "6", "7", "8", "9">>
RECURSIVE IntText(_)
IntText(n) == IF n < 10 THEN Digits[n + 1]
              ELSE IntText(n \div 10) \o Digits[(n % 10) + 1]

ScalarText(node) == IF node.k = "int" THEN IntText(node.i) ELSE node.s

ResolveScalar(text) ==
    IF text = "" THEN Null
    ELSE IF \E n \in 0..(MaxVal + 10) : IntText(n) = text
    THEN IntN(CHOOSE n \in 0..(MaxVal + 10) : IntText(n) = text)
    ELSE StrN(text)

(***************************************************************************)
(* ConfigElement.yaml_events (render).  With a value, the value is the     *)
(* node's data; without one a leaf shows its default (or an empty          *)
(* placeholder), a keyed element renders every declared key, and a         *)
(* category or list renders one placeholder entry.  The choices of a leaf  *)
(* are attached as a comment when show_choices is set.  Renderable tells   *)
(* whether the value has the shape the element can walk; yaml_events       *)
(* raises otherwise.                                                       *)
(***************************************************************************)
RECURSIVE Renderable(_, _, _)
Renderable(h, id, value) ==
    LET e == h[id] IN
    \/ value.k = "null"
    \/ /\ e.type = "keyed"
       /\ value.k = "map"
       /\ \A c \in 1..Len(e.subs) :
             Renderable(h, e.subs[c], Get(value, h[e.subs[c]].name))
    \/ /\ e.type = "category" /\ value.k = "map"
       /\ \A j \in 1..Len(value.kids) : Renderable(h, e.subs[1], value.kids[j].val)
    \/ /\ e.type = "list" /\ value.k = "seq"
       /\ \A j \in 1..Len(value.kids) : Renderable(h, e.subs[1], value.kids[j].val)
    \/ e.type \in {"str", "int"} /\ value.k \in {"str", "int"}

PlaceholderKey == "example"

RECURSIVE yaml_events(_, _, _, _)
RECURSIVE keyed_events(_, _, _, _, _)
RECURSIVE item_events(_, _, _, _, _)

keyed_events(h, subs, value, show_choices, idx) ==
    IF idx > Len(subs) THEN <<>>
    ELSE <<ScalarEvent(h[subs[idx]].name)>>
         \o yaml_events(h, subs[idx], Get(value, h[subs[idx]].name), show_choices)
         \o keyed_events(h, subs, value, show_choices, idx + 1)

item_events(h, sub, value, show_choices, idx) ==
    IF idx > Len(value.kids) THEN <<>>
    ELSE (IF value.k = "map" THEN <<ScalarEvent(value.kids[idx].key)>> ELSE <<>>)
         \o yaml_events(h, sub, value.kids[idx].val, show_choices)
         \o item_events(h, sub, value, show_choices, idx + 1)

yaml_events(h, id, value, show_choices) ==
    LET e == h[id] IN
    CASE e.type = "keyed" ->
           <<MappingStartEvent>> \o keyed_events(h, e.subs, value, show_choices, 1)
           \o <<MappingEndEvent>>
      [] e.type = "category" ->
           <<MappingStartEvent>>
           \o (IF value.k = "null"
               THEN <<ScalarEvent(PlaceholderKey)>>
                    \o yaml_events(h, e.subs[1], Null, show_choices)
               ELSE item_events(h, e.subs[1], value, show_choices, 1))
           \o <<MappingEndEvent>>
      [] e.type = "list" ->
           <<SequenceStartEvent>>
           \o (IF value.k = "null"
               THEN yaml_events(h, e.subs[1], Null, show_choices)
               ELSE item_events(h, e.subs[1], value, show_choices, 1))
           \o <<SequenceEndEvent>>
      [] OTHER ->
           (IF show_choices /\ e.choices # {} THEN <<CommentEvent("choices")>> ELSE <<>>)
           \o <<ScalarEvent(ScalarText(IF value.k # "null" THEN value ELSE e.default))>>

(***************************************************************************)
(* yaml.emit and yaml.load.  The emitter accepts StreamStart,              *)
(* DocumentStart, one node, DocumentEnd, StreamEnd and writes the          *)
(* document's tokens; any other event sequence is an EmitterError.  The    *)
(* reader rebuilds the node tree from the tokens, skipping comments.       *)
(***************************************************************************)
RECURSIVE NodeEnd(_, _)
RECURSIVE EntriesEnd(_, _, _)

\* The position after the node that starts at pos, 0 when there is none.
NodeEnd(toks, pos) ==
    IF pos = 0 \/ pos > Len(toks) THEN 0
    ELSE CASE toks[pos].e = "Comment" -> NodeEnd(toks, pos + 1)
           [] toks[pos].e = "Scalar" -> pos + 1
           [] toks[pos].e = "MappingStart" -> EntriesEnd(toks, pos + 1, TRUE)
           [] toks[pos].e = "SequenceStart" -> EntriesEnd(toks, pos + 1, FALSE)
           [] OTHER -> 0

\* The position after the end marker of the collection whose entries start at pos.
EntriesEnd(toks, pos, keyed) ==
    IF pos = 0 \/ pos > Len(toks) THEN 0
    ELSE IF toks[pos].e = "Comment" THEN EntriesEnd(toks, pos + 1, keyed)
    ELSE IF toks[pos].e = (IF keyed THEN "MappingEnd" ELSE "SequenceEnd") THEN pos + 1
    ELSE IF keyed
    THEN IF toks[pos].e = "Scalar"
         THEN EntriesEnd(toks, NodeEnd(toks, pos + 1), keyed)
         ELSE 0
    ELSE EntriesEnd(toks, NodeEnd(toks, pos), keyed)

RECURSIVE NodeAt(_, _)
RECURSIVE EntriesAt(_, _, _, _)

\* The node that starts at pos of a well-formed token sequence.
NodeAt(toks, pos) ==
    CASE toks[pos].e = "Comment" -> NodeAt(toks, pos + 1)
      [] toks[pos].e = "Scalar" -> ResolveScalar(toks[pos].text)
      [] toks[pos].e = "MappingStart" -> MapN(EntriesAt(toks, pos + 1, TRUE, <<>>))
      [] OTHER -> SeqN(EntriesAt(toks, pos + 1, FALSE, <<>>))

EntriesAt(toks, pos, keyed, acc) ==
    IF toks[pos].e = "Comment" THEN EntriesAt(toks, pos + 1, keyed, acc)
    ELSE IF toks[pos].e \in {"MappingEnd", "SequenceEnd"} THEN acc
    ELSE IF keyed
    THEN EntriesAt(toks, NodeEnd(toks, pos + 1), keyed,
                   Append(acc, KV(toks[pos].text, NodeAt(toks, pos + 1))))
    ELSE EntriesAt(toks, NodeEnd(toks, pos), keyed,
                   Append(acc, Item(NodeAt(toks, pos))))

\* A stream: whether it can be read or written, and the tokens on it.
Stream(usable, toks) == [usable |-> usable, toks |-> toks]

\* yaml.emit(events, outfile): [err, written].
yaml_emit(events, outfile) ==
    IF ~outfile.usable THEN [err |-> "IOError", written |-> <<>>]
    ELSE IF /\ Len(events) >= 5
            /\ events[1] = StreamStartEvent
            /\ events[2] = DocumentStartEvent
            /\ NodeEnd(events, 3) = Len(events) - 1
            /\ events[Len(events) - 1] = DocumentEndEvent
            /\ events[Len(events)] = StreamEndEvent
    THEN [err |-> "", written |-> SubSeq(events, 3, Len(events) - 2)]
    ELSE [err |-> "EmitterError", written |-> <<>>]

\* yaml.load(infile): [err, val].  An empty document is None.
yaml_load(infile) ==
    IF ~infile.usable THEN Err("IOError")
    ELSE IF \A j \in 1..Len(infile.toks) : infile.toks[j].e = "Comment" THEN Ok(Null)
    ELSE IF NodeEnd(infile.toks, 1) = Len(infile.toks) + 1
    THEN Ok(NodeAt(infile.toks, 1))
    ELSE Err("YAMLError")
(***************************************************************************)
(* config.py: the root classes' constructors.  The container constructor   *)
(* receives the class attribute itself (self.ELEMENTS, self.BASE), then    *)
(* the root's name is forced to '<root>'.                                  *)
(***************************************************************************)
RootName == "<root>"

YamlConfig__init__(h, self) ==
    LET h1 == [h EXCEPT ![self] = KeyedElem(NoName, ELEMENTS(self))]
    IN [h1 EXCEPT ![self].name = RootName]

CategoryYamlConfig__init__(h, self) ==
    LET h1 == [h EXCEPT ![self] = CategoryElem(NoName, BASE(self))]
    IN [h1 EXCEPT ![self].name = RootName]

\* Faulty variant: the list root keeps the name its container constructor gave it.
ListYamlConfig__init__unnamed(h, self) ==
    [h EXCEPT ![self] = ListElem(NoName, BASE(self))]

ListYamlConfig__init__(h, self) ==
    LET h1 == [h EXCEPT ![self] = ListElem(NoName, BASE(self))]
    IN [h1 EXCEPT ![self].name = RootName]

\* K1 = DessertConfig(); K2 = DessertConfig(); C = UserConfig(); L = ShoppingList()
Constructed ==
    ListYamlConfig__init__(
        CategoryYamlConfig__init__(
            YamlConfig__init__(YamlConfig__init__(ClassHeap, "K1"), "K2"), "C"), "L")

(***************************************************************************)
(* config.py: YamlConfigMixin.dump, load and set_default.                  *)
(***************************************************************************)
\* dump: [err, emits, written]; emits lists the event sequences handed to
\* yaml.emit, one per invocation, written the tokens put on outfile.
\* Faulty variant: the closing markers are added before the element's events.
dump_misordered(h, self, outfile, values, show_choices) ==
    LET events1 == <<StreamStartEvent, DocumentStartEvent,
                     DocumentEndEvent, StreamEndEvent>>
    IN IF ~Renderable(h, self, values)
       THEN [err |-> "TypeError", emits |-> <<>>, written |-> <<>>]
       ELSE LET events3 == events1 \o yaml_events(h, self, values, show_choices)
                r == yaml_emit(events3, outfile)
            IN [err |-> r.err, emits |-> <<events3>>, written |-> r.written]

\* Faulty variant: the opening markers are emitted before the element is rendered.
dump_streaming(h, self, outfile, values, show_choices) ==
    LET events1 == <<StreamStartEvent, DocumentStartEvent>>
    IN IF ~Renderable(h, self, values)
       THEN [err |-> "TypeError", emits |-> <<events1>>,
             written |-> IF outfile.usable THEN events1 ELSE <<>>]
       ELSE LET events3 == events1 \o yaml_events(h, self, values, show_choices)
                               \o <<DocumentEndEvent, StreamEndEvent>>
                r == yaml_emit(events3, outfile)
            IN [err |-> r.err, emits |-> <<events3>>, written |-> r.written]

dump(h, self, outfile, values, show_choices) ==
    LET events1 == <<>> \o <<StreamStartEvent, DocumentStartEvent>>
    IN IF ~Renderable(h, self, values)
       THEN [err |-> "TypeError", emits |-> <<>>, written |-> <<>>]
       ELSE LET events2 == events1 \o yaml_events(h, self, values, show_choices)
                events3 == events2 \o <<DocumentEndEvent, StreamEndEvent>>
                r == yaml_emit(events3, outfile)
            IN [err |-> r.err, emits |-> <<events3>>, written |-> r.written]

\* The defaults of dump's signature: values=None, show_choices=True.
dump_call(h, self, outfile, args) ==
    dump(h, self, outfile,
         IF args.has_values THEN args.values ELSE Null,
         IF args.has_show THEN args.show ELSE TRUE)

\* Faulty variant: a validation failure is swallowed and the raw data returned.
load_lenient(h, self, infile) ==
    LET raw_data == yaml_load(infile)
    IN IF raw_data.err # ""
       THEN [err |-> raw_data.err, val |-> Null, calls |-> <<"yaml.load">>]
       ELSE LET r == validate(h, self, raw_data.val)
            IN [err |-> "", val |-> IF r.err = "" THEN r.val ELSE raw_data.val,
                calls |-> <<"yaml.load", "validate">>]

\* load: [err, val, calls]; calls lists the collaborators called, in order.
load(h, self, infile) ==
    LET raw_data == yaml_load(infile)
    IN IF raw_data.err # ""
       THEN [err |-> raw_data.err, val |-> Null, calls |-> <<"yaml.load">>]
       ELSE LET r == validate(h, self, raw_data.val)
            IN [err |-> r.err, val |-> r.val, calls |-> <<"yaml.load", "validate">>]

\* Faulty variant: a failed lookup still assigns, to the element the lookup reached.
set_default_eager(h, self, dotted_key, value) ==
    LET elem == find(h, self, dotted_key)
    IN [err |-> elem.err, heap |-> [h EXCEPT ![elem.elem].default = value]]

\* Faulty variant: the default is assigned to the root instead of the element found.
set_default_on_self(h, self, dotted_key, value) ==
    LET elem == find(h, self, dotted_key)
    IN IF elem.err # "" THEN [err |-> elem.err, heap |-> h]
       ELSE [err |-> "", heap |-> [h EXCEPT ![self].default = value]]

\* Faulty variant: the element found is also renamed after the key's last segment.
set_default_renaming(h, self, dotted_key, value) ==
    LET elem == find(h, self, dotted_key)
    IN IF elem.err # "" THEN [err |-> elem.err, heap |-> h]
       ELSE [err |-> "",
             heap |-> [h EXCEPT ![elem.elem].default = value,
                                ![elem.elem].name = dotted_key[Len(dotted_key)]]]

\* set_default: [err, heap].
set_default(h, self, dotted_key, value) ==
    LET elem == find(h, self, dotted_key)
    IN IF elem.err # "" THEN [err |-> elem.err, heap |-> h]
       ELSE [err |-> "", heap |-> [h EXCEPT ![elem.elem].default = value]]
(***************************************************************************)
(* The state: the heap of element objects, the record of the last call on  *)
(* a Config Root, and the value most recently passed to a set_default      *)
(* call that returned normally, per schema class and dotted key.           *)
(***************************************************************************)
VARIABLES heap, last, lastSet

vars == <<heap, last, lastSet>>

Classes == {ClassOf(r) : r \in Roots}

DottedKeys == {<<"pie", "fruit">>, <<"*">>, <<"pie", "zzz">>}

DefaultValues == {StrN("apple"), IntN(MaxVal)}

Unset == [k |-> "unset", i |-> 0, s |-> "", kids |-> <<>>]

PieOf(fruit) == MapN(<<KV("pie", MapN(<<KV("fruit", fruit)>>))>>)

\* The documents offered to load.
DocNodes ==
    {Null, MapN(<<>>), PieOf(StrN("apple")), PieOf(StrN("kiwi")),
     MapN(<<KV("bob", Null)>>),
     SeqN(<<Item(StrN("apple")), Item(StrN("kiwi"))>>)}
    \cup {MapN(<<KV("bob", IntN(n))>>) : n \in 0..MaxVal}

\* The tokens of a document holding the node.
RECURSIVE NodeEvents(_)
RECURSIVE EntryEvents(_, _)
EntryEvents(node, idx) ==
    IF idx > Len(node.kids) THEN <<>>
    ELSE (IF node.k = "map" THEN <<ScalarEvent(node.kids[idx].key)>> ELSE <<>>)
         \o NodeEvents(node.kids[idx].val) \o EntryEvents(node, idx + 1)
NodeEvents(node) ==
    CASE node.k = "map" -> <<MappingStartEvent>> \o EntryEvents(node, 1) \o <<MappingEndEvent>>
      [] node.k = "seq" -> <<SequenceStartEvent>> \o EntryEvents(node, 1) \o <<SequenceEndEvent>>
      [] OTHER -> <<ScalarEvent(ScalarText(node))>>

Unreadable == Stream(FALSE, <<>>)
Malformed == Stream(TRUE, <<MappingStartEvent, ScalarEvent("pie")>>)
InFiles == {Unreadable, Malformed} \cup {Stream(TRUE, NodeEvents(n)) : n \in DocNodes}

\* The values offered to dump, besides the value tree the last load returned.
\* A scalar is a value no root can render.
DumpValues == {StrN("kiwi")}

\* The calls dump(outfile), dump(outfile, values), dump(outfile, show_choices=False)
\* and dump(outfile, values, False).
DumpArgs(values) ==
    {[has_values |-> hv, values |-> IF hv THEN v ELSE Null,
      has_show |-> hs, show |-> FALSE] :
        hv \in BOOLEAN, v \in values, hs \in BOOLEAN}

NoArgs == [has_values |-> FALSE, values |-> Null, has_show |-> FALSE, show |-> FALSE]

NoCall ==
    [op |-> "init", self |-> "", key |-> <<>>, value |-> Null, args |-> NoArgs,
     file |-> Unreadable, err |-> "", ret |-> Null, emits |-> <<>>,
     written |-> <<>>, calls |-> <<>>, pre |-> Constructed,
     rt_stage |-> "", rt_V |-> Null]

Init ==
    /\ heap = Constructed
    /\ last = NoCall
    /\ lastSet = [c \in Classes |-> [key \in DottedKeys |-> Unset]]

SetDefault(self, dotted_key, value) ==
    LET r == set_default(heap, self, dotted_key, value)
    IN /\ heap' = r.heap
       /\ last' = [NoCall EXCEPT !.op = "set_default", !.self = self,
                                 !.key = dotted_key, !.value = value,
                                 !.err = r.err, !.pre = heap]
       /\ lastSet' = IF r.err = ""
                     THEN [lastSet EXCEPT ![ClassOf(self)][dotted_key] = value]
                     ELSE lastSet

Load(self, infile) ==
    LET r == load(heap, self, infile)
        reload == /\ last.op = "dump" /\ last.rt_stage = "dumped" /\ last.err = ""
                  /\ last.self = self /\ infile = Stream(TRUE, last.written)
    IN /\ last' = [NoCall EXCEPT !.op = "load", !.self = self, !.file = infile,
                                 !.err = r.err, !.ret = r.val, !.calls = r.calls,
                                 !.rt_stage = IF reload THEN "loaded"
                                              ELSE IF r.err = "" THEN "validated"
                                              ELSE "",
                                 !.rt_V = IF reload THEN last.rt_V ELSE r.val]
       /\ UNCHANGED <<heap, lastSet>>

Dump(self, outfile, args) ==
    LET r == dump_call(heap, self, outfile, args)
        of_loaded == /\ last.op = "load" /\ last.rt_stage = "validated"
                     /\ last.self = self /\ outfile.usable
                     /\ args.has_values /\ args.values = last.rt_V
    IN /\ last' = [NoCall EXCEPT !.op = "dump", !.self = self, !.file = outfile,
                                 !.args = args, !.err = r.err, !.emits = r.emits,
                                 !.written = r.written,
                                 !.rt_stage = IF of_loaded THEN "dumped" ELSE "",
                                 !.rt_V = IF of_loaded THEN last.rt_V ELSE Null]
       /\ UNCHANGED <<heap, lastSet>>

Next ==
    \/ \E self \in Roots, dotted_key \in DottedKeys, value \in DefaultValues :
          SetDefault(self, dotted_key, value)
    \/ \E self \in Roots :
          \E infile \in InFiles \cup (IF /\ last.op = "dump" /\ last.err = ""
                                         /\ last.self = self
                                      THEN {Stream(TRUE, last.written)} ELSE {}) :
             Load(self, infile)
    \/ \E self \in Roots, usable \in BOOLEAN :
          \E args \in DumpArgs(DumpValues \cup (IF /\ last.op = "load" /\ last.err = ""
                                                   /\ last.self = self
                                                THEN {last.ret} ELSE {})) :
             Dump(self, Stream(usable, <<>>), args)

Spec == Init /\ [][Next]_vars
(***************************************************************************)
(* Properties.                                                             *)
(***************************************************************************)
\* The arguments a dump call runs with, after the signature's defaults.
ValuesOf(call) == IF call.args.has_values THEN call.args.values ELSE Null
ShowOf(call) == IF call.args.has_show THEN call.args.show ELSE TRUE

Bracketed(call) ==
    <<StreamStartEvent, DocumentStartEvent>>
    \o yaml_events(heap, call.self, ValuesOf(call), ShowOf(call))
    \o <<DocumentEndEvent, StreamEndEvent>>

\* The element a set_default call's key resolved to, in the heap before the call.
Found(call) == find(call.pre, call.self, call.key)

EmptyMapping == Stream(TRUE, NodeEvents(MapN(<<>>)))

\* C1: set_default validates the value against the element its key resolves
\* to; a valid value becomes the element's default, an invalid one fails with
\* ValueError and leaves the default as it was.
C1_SetDefaultValidates ==
    (last.op = "set_default" /\ Found(last).err = "") =>
        IF validate(last.pre, Found(last).elem, last.value).err = ""
        THEN /\ last.err = ""
             /\ heap[Found(last).elem].default = last.value
        ELSE /\ last.err = "ValueError"
             /\ heap[Found(last).elem].default = last.pre[Found(last).elem].default

C3_LoadParsesThenValidates ==
    last.op = "load" =>
        IF yaml_load(last.file).err # ""
        THEN /\ last.err = yaml_load(last.file).err
             /\ last.calls = <<"yaml.load">>
        ELSE /\ last.calls = <<"yaml.load", "validate">>
             /\ last.err = validate(heap, last.self, yaml_load(last.file).val).err
             /\ last.ret = validate(heap, last.self, yaml_load(last.file).val).val

C3_Witness ==
    /\ last.op = "load" /\ last.self = "C"
    /\ last.err = "RequiredError"
    /\ last.calls = <<"yaml.load", "validate">>

\* C4: set_default with a key that has an undeclared segment fails with
\* KeyError and changes no element's default.
C4_BadKeyChangesNothing ==
    (last.op = "set_default" /\ Found(last).err # "") =>
        /\ last.err = "KeyError"
        /\ \A id \in ElemIds : heap[id].default = last.pre[id].default

C4_Witness ==
    /\ last.op = "set_default" /\ last.self = "K1"
    /\ last.key = <<"pie", "zzz">> /\ last.err = "KeyError"
    /\ heap["fruit"].default # Null

\* C5: in the all-optional schema, after set_default('pie.fruit', x) with a
\* valid x, validating an empty mapping yields x at pie.fruit, x being the
\* value of the most recent set_default on that key that returned.
C5_DefaultInjected ==
    LET x == lastSet["DessertConfig"][<<"pie", "fruit">>]
    IN (/\ last.op = "load" /\ ClassOf(last.self) = "DessertConfig"
        /\ last.file = EmptyMapping
        /\ x # Unset
        /\ validate(ClassHeap, "fruit", x).err = "") =>
            /\ last.err = ""
            /\ Get(Get(last.ret, "pie"), "fruit") = x

C5_Witness ==
    /\ last.op = "load" /\ last.self = "K1" /\ last.file = EmptyMapping
    /\ lastSet["DessertConfig"][<<"pie", "fruit">>] = StrN("apple")
    /\ last.ret = PieOf(StrN("apple"))

\* C6: a value tree V returned by load, dumped with dump(stream, V) and
\* loaded again from that stream, comes back equal to V.
C6_RoundTrip ==
    /\ last.rt_stage = "dumped" => last.err = ""
    /\ last.rt_stage = "loaded" => (last.err = "" /\ last.ret = last.rt_V)

\* The round trip does hold while every default in the schema satisfies its
\* element's constraints, which is what set_default is documented to ensure.
ValidDefaults ==
    \A id \in ElemIds :
        heap[id].default = Null \/ validate(ClassHeap, id, heap[id].default).err = ""

RoundTripWithValidDefaults == ValidDefaults => C6_RoundTrip

\* C7: a set_default on one Config Root leaves every default that any other
\* Config Root sees unchanged.
C7_DefaultsNotShared ==
    (last.op = "set_default" /\ last.err = "") =>
        \A other \in Roots \ {last.self} : \A key \in DottedKeys :
            find(heap, other, key).err = "" =>
                heap[find(heap, other, key).elem].default
                    = last.pre[find(heap, other, key).elem].default

\* C8: every root's name is '<root>' once constructed, and stays so.
C8_RootNameFixed ==
    \A self \in Roots : heap[self].name = RootName

C8_Witness ==
    /\ last.op = "set_default" /\ last.self = "L" /\ last.err = ""
    /\ heap["item"].default # Null
    /\ heap["L"].name = RootName

\* C9: load and dump leave the schema unchanged; a set_default call changes
\* nothing but the default of the one element its key resolves to.
C9_OnlyDefaultChanges ==
    [][/\ last'.op \in {"load", "dump"} => heap' = heap
       /\ last'.op = "set_default" =>
             \A id \in ElemIds :
                heap'[id] = IF /\ find(heap, last'.self, last'.key).err = ""
                               /\ find(heap, last'.self, last'.key).elem = id
                            THEN [heap[id] EXCEPT !.default = last'.value]
                            ELSE heap[id]]_vars

C9_Witness ==
    /\ last.op = "set_default" /\ last.err = ""
    /\ heap # last.pre
    /\ \A id \in ElemIds \ {Found(last).elem} : heap[id] = last.pre[id]

\* C10: when the root fails to render, the emitter is not invoked and nothing
\* is written; whenever the emitter is invoked it is handed the complete
\* sequence, and the only failures seen are the emitter's own.
C10_NoPartialDump ==
    last.op = "dump" =>
        /\ ~Renderable(heap, last.self, ValuesOf(last)) =>
              (last.err = "TypeError" /\ last.emits = <<>> /\ last.written = <<>>)
        /\ \A j \in 1..Len(last.emits) :
              /\ SubSeq(last.emits[j], 1, 2) = <<StreamStartEvent, DocumentStartEvent>>
              /\ SubSeq(last.emits[j], Len(last.emits[j]) - 1, Len(last.emits[j]))
                    = <<DocumentEndEvent, StreamEndEvent>>
              /\ last.err \in {"", "IOError", "EmitterError"}

C10_Witness ==
    /\ last.op = "dump" /\ last.file.usable
    /\ last.err = "TypeError" /\ last.written = <<>>
====
